---- MODULE Spec2Model ----
(***************************************************************************)
(* A model of go-names2stats: names are resolved inside an os.Root, the    *)
(* raw file mode is classified into a FileType, and the records are        *)
(* streamed through a pull iterator into a JSON-lines encoder that sits on *)
(* a bufio.Writer.                                                         *)
(*                                                                         *)
(* A name is a sequence of path segments.  A timestamp is a calendar       *)
(* instant [year, frac]; UnixMicro turns it into an integer count of       *)
(* UnitsPerYear-th parts of a year since 1970 (the real unit, the          *)
(* microsecond, does not fit the model checker's integers).  An encoded    *)
(* line is a sequence of units, one per path segment, so that lines have   *)
(* different lengths and the buffered writer can split them.               *)
(***************************************************************************)
EXTENDS Integers, Sequences, FiniteSets, TLC

VARIABLES
    pc,       \* position of the run (main and the calls below it)
    env,      \* ENV_ROOT_DIR_NAME: "unread", "set" or "missing"
    root,     \* the *os.Root handle: "unopened", "failed", "open", "closed"
    closes,   \* number of calls of Root.Close
    consumer, \* who ranges over the stream: "none", "writer", "range"
    names,    \* the name sequence of ReaderToNames: the lines of the input,
              \* in order, until the scanner ends, then the names it gave
    idx,      \* number of names pulled from the input so far
    cur,      \* the name pulled last
    res,      \* the (BasicStat, error) pair resolved last
    bw,       \* the bufio.Writer and the sink below it
    ret,      \* the error the pipeline returned
    logged,   \* what main printed with log.Printf
    events,   \* history: the operations performed, in order
    yielded,  \* history: the results handed to yield, in order
    stopAt,   \* history: the index of the item at which the consumer's loop
              \* body stopped the loop (yield returned false), 0 if none
    coll,     \* BasicStatIter.Collect: the slice ret, then the slice returned
    scanErr,  \* the error the bufio.Scanner met: "nil" while it has met
              \* none, then "EOF", "readError" or "ErrTooLong"
    input,    \* history: the lines of the reader, as they are in the stream
    cmode,    \* classifier under test: the mode bit pattern
    ctype,    \* classifier under test: the FileType returned
    cstat,    \* classifier under test: the BasicStat of a FileInfo with cmode
    ccode,    \* labeler under test: the FileType code looked up
    clabel    \* labeler under test: the label returned

vars == <<pc, env, root, closes, consumer, names, idx, cur, res, bw, ret,
          logged, events, yielded, stopAt, coll, scanErr, input, cmode,
          ctype, cstat, ccode, clabel>>

classVars == <<cmode, ctype, cstat, ccode, clabel>>

auxVars == <<coll, scanErr, input>>

-----------------------------------------------------------------------------
(* Bounds of the model *)

\* longest input (number of names)
MaxNames == 3

\* capacity of the bufio.Writer, in units (bufio's default is 4096 bytes)
BufSize == 2

\* the sink fails at its first, second, ... (SinkBound+1)-th write, or never
SinkBound == 2

\* parts of a year a timestamp counts
UnitsPerYear == 2

\* the label table is looked up for the codes from CodeMargin below the
\* smallest FileType code to CodeMargin above the largest
CodeMargin == 2

-----------------------------------------------------------------------------
(* FileType and its labels *)

FileTypeUnspecified == 0

FileTypeBlck == 104

FileTypeChar == 103

FileTypeFldr == 105

FileTypeRglr == 100

FileTypeSyml == 102

FileTypePipe == 106

FileTypeSock == 109

\* the table fileTypeToStringMap: a map from code to label
fileTypeToStringMap ==
    [t \in {FileTypeUnspecified, FileTypeBlck, FileTypeChar, FileTypeFldr,
            FileTypeRglr, FileTypeSyml, FileTypePipe, FileTypeSock} |->
        CASE t = FileTypeUnspecified -> "UNKNOWN FILE TYPE"
          [] t = FileTypeBlck -> "block special"
          [] t = FileTypeChar -> "character special"
          [] t = FileTypeFldr -> "directory"
          [] t = FileTypeRglr -> "regular file"
          [] t = FileTypeSyml -> "symbolic link"
          [] t = FileTypePipe -> "FIFO"
          [] t = FileTypeSock -> "socket"]

\* a map lookup m[typ] without the found flag: the zero value "" when absent
MapIndex(m, typ) == IF typ \in DOMAIN m THEN m[typ] ELSE ""

\* faulty variant: the lookup result is returned whether or not the key was found
ToFileTypeToStringNoFallback(m, typ) == MapIndex(m, typ)

\* FileTypeToStringMap.ToFileTypeToString: val, found := m[typ]
ToFileTypeToString(m, typ) ==
    IF typ \in DOMAIN m THEN m[typ] ELSE MapIndex(m, FileTypeUnspecified)

\* var FileTypeToStringMapDefault = fileTypeToStringMap
FileTypeToStringMapDefault == fileTypeToStringMap

FileTypeToStringDefault(typ) ==
    ToFileTypeToString(FileTypeToStringMapDefault, typ)

-----------------------------------------------------------------------------
(* File modes: a mode is the set of the fs.FileMode bits that are set *)

ModeBits == {"ModeDir", "ModeSymlink", "ModeNamedPipe", "ModeSocket",
             "ModeDevice", "ModeCharDevice", "ModeIrregular", "ModePerm"}

\* fs.ModeType, the mask FileMode.IsRegular tests
ModeType == {"ModeDir", "ModeSymlink", "ModeNamedPipe", "ModeSocket",
             "ModeDevice", "ModeCharDevice", "ModeIrregular"}

\* m.FileMode.IsRegular(): m & ModeType == 0
IsRegular(m) == m \cap ModeType = {}

\* m.FileMode.IsDir(): m & ModeDir != 0
IsDir(m) == "ModeDir" \in m

IsSymlink(m) == "ModeSymlink" \in m

IsNamedPipe(m) == "ModeNamedPipe" \in m

IsSocket(m) == "ModeSocket" \in m

IsCharDevice(m) == "ModeCharDevice" \in m

IsDevice(m) == "ModeDevice" \in m

IsBlockDevice(m) ==
    LET isDevice == IsDevice(m)
        isChar == IsCharDevice(m)
        isNotChar == ~isChar
    IN  isDevice /\ isNotChar

\* faulty variant: the symbolic link case is tested before the directory case
ToFileTypeSymlinkFirst(m) ==
    IF IsRegular(m) THEN FileTypeRglr
    ELSE IF IsSymlink(m) THEN FileTypeSyml
    ELSE IF IsDir(m) THEN FileTypeFldr
    ELSE IF IsNamedPipe(m) THEN FileTypePipe
    ELSE IF IsSocket(m) THEN FileTypeSock
    ELSE IF IsCharDevice(m) THEN FileTypeChar
    ELSE IF IsBlockDevice(m) THEN FileTypeBlck
    ELSE FileTypeUnspecified

\* faulty variant: no default case, an unmatched mode leaves the code unset (-1 here)
ToFileTypeNoDefault(m) ==
    IF IsRegular(m) THEN FileTypeRglr
    ELSE IF IsDir(m) THEN FileTypeFldr
    ELSE IF IsSymlink(m) THEN FileTypeSyml
    ELSE IF IsNamedPipe(m) THEN FileTypePipe
    ELSE IF IsSocket(m) THEN FileTypeSock
    ELSE IF IsCharDevice(m) THEN FileTypeChar
    ELSE IF IsBlockDevice(m) THEN FileTypeBlck
    ELSE -1

\* FileMode.ToFileType: the switch, first true case wins
ToFileType(m) ==
    IF IsRegular(m) THEN FileTypeRglr
    ELSE IF IsDir(m) THEN FileTypeFldr
    ELSE IF IsSymlink(m) THEN FileTypeSyml
    ELSE IF IsNamedPipe(m) THEN FileTypePipe
    ELSE IF IsSocket(m) THEN FileTypeSock
    ELSE IF IsCharDevice(m) THEN FileTypeChar
    ELSE IF IsBlockDevice(m) THEN FileTypeBlck
    ELSE FileTypeUnspecified

-----------------------------------------------------------------------------
(* The file system the root is opened in.  "R" is the root directory, "P"  *)
(* its parent; "P" and "secret" lie outside the root.                      *)

Nodes == {"P", "secret", "R", "a", "d", "f", "big", "lin", "lout"}

Inside == {"R", "a", "d", "f", "big", "lin", "lout"}

NoNode == "none"

Parent(n) ==
    CASE n = "P" -> "P"
      [] n \in {"secret", "R"} -> "P"
      [] n \in {"a", "d", "big", "lin", "lout"} -> "R"
      [] n = "f" -> "d"

Kind(n) ==
    CASE n \in {"P", "R", "d"} -> "dir"
      [] n \in {"lin", "lout"} -> "symlink"
      [] OTHER -> "file"

\* the target of a symbolic link, as readlink returns it
Target(n) ==
    CASE n = "lin" -> [abs |-> FALSE, parts |-> <<"d", "f">>]
      [] n = "lout" -> [abs |-> FALSE, parts |-> <<"..", "secret">>]

\* the entry called seg in directory dir
Child(dir, seg) ==
    IF seg = "." THEN dir
    ELSE IF seg \in Nodes \ {"P"} /\ Parent(seg) = dir THEN seg
    ELSE NoNode

\* what fstatat reports for an entry: fs.FileInfo
Info(n) ==
    [size |-> CASE n = "a" -> 42 [] n = "f" -> 7 [] n = "big" -> 5
                [] n = "secret" -> 99 [] OTHER -> 0,
     modTime |-> CASE n = "big" -> [year |-> 10000, frac |-> 0]
                   [] n = "f" -> [year |-> 1969, frac |-> 1]
                   [] OTHER -> [year |-> 2024, frac |-> 1],
     mode |-> CASE Kind(n) = "dir" -> {"ModeDir", "ModePerm"}
                [] Kind(n) = "symlink" -> {"ModeSymlink", "ModePerm"}
                [] OTHER -> {"ModePerm"}]

\* the names the input lines are drawn from
NameSet == {<<"a">>, <<"d">>, <<"d", "..", "a">>, <<"..", "secret">>,
            <<"lout">>, <<"lin">>, <<"big">>}

-----------------------------------------------------------------------------
(* Errors and results *)

Nil == [kind |-> "nil", name |-> <<>>]

PathError(kind, name) == [kind |-> kind, name |-> name]

\* symbolic links os.Root follows in one lookup (rootMaxSymlinks)
rootMaxSymlinks == 8

\* number of consecutive ".." components of parts from position i on
RECURSIVE DotDots(_, _)
DotDots(parts, i) ==
    IF i <= Len(parts) /\ parts[i] = ".." THEN 1 + DotDots(parts, i + 1) ELSE 0

\* slices.Delete: parts without the positions from .. to
DeleteRange(parts, from, to) ==
    SubSeq(parts, 1, from - 1) \o SubSeq(parts, to + 1, Len(parts))

\* os.Root's lookup of one name (doInRoot with rootStat's function): parts[i]
\* is looked up in dirfd, the directory the components before i led to.
\* Gives [node, err]: the entry found, or the error kind.
RECURSIVE doInRoot(_, _, _, _)
doInRoot(parts, i, dirfd, symlinks) ==
    IF parts[i] = ".."
    THEN LET count == DotDots(parts, i)
         IN  IF count > i - 1
             THEN [node |-> NoNode, err |-> "PathEscapesRoot"]
             ELSE LET rest == DeleteRange(parts, i - count, i + count - 1)
                  IN  doInRoot(IF rest = <<>> THEN <<".">> ELSE rest,
                               1, "R", symlinks)
    ELSE LET child == Child(dirfd, parts[i])
         IN  IF child = NoNode
             THEN [node |-> NoNode, err |-> "ENOENT"]
             ELSE IF Kind(child) = "symlink"
             THEN IF symlinks + 1 > rootMaxSymlinks
                  THEN [node |-> NoNode, err |-> "ELOOP"]
                  ELSE IF Target(child).abs
                  THEN [node |-> NoNode, err |-> "PathEscapesRoot"]
                  ELSE doInRoot(SubSeq(parts, 1, i - 1) \o Target(child).parts
                                  \o SubSeq(parts, i + 1, Len(parts)),
                                i, dirfd, symlinks + 1)
             ELSE IF i = Len(parts)
             THEN [node |-> child, err |-> "nil"]
             ELSE IF Kind(child) # "dir"
             THEN [node |-> NoNode, err |-> "ENOTDIR"]
             ELSE doInRoot(parts, i + 1, child, symlinks)

\* the entry a path denotes when nothing confines it (stat from the root
\* directory, ".." and links followed wherever they lead); left says whether
\* the walk set foot outside the root
RECURSIVE PlainWalk(_, _, _, _)
PlainWalk(parts, dir, links, left) ==
    IF parts = <<>> THEN [node |-> dir, err |-> "nil", left |-> left]
    ELSE LET seg == Head(parts)
             child == IF seg = ".." THEN Parent(dir) ELSE Child(dir, seg)
         IN  IF child = NoNode
             THEN [node |-> NoNode, err |-> "ENOENT", left |-> left]
             ELSE IF Kind(child) = "symlink"
             THEN IF links + 1 > rootMaxSymlinks
                  THEN [node |-> NoNode, err |-> "ELOOP", left |-> left]
                  ELSE PlainWalk(Target(child).parts \o Tail(parts),
                                 IF Target(child).abs THEN "P" ELSE dir,
                                 links + 1,
                                 left \/ Target(child).abs)
             ELSE IF Tail(parts) # <<>> /\ Kind(child) # "dir"
             THEN [node |-> NoNode, err |-> "ENOTDIR", left |-> left]
             ELSE PlainWalk(Tail(parts), child, links,
                            left \/ child \notin Inside)

\* fs.FileInfo with its error: [info, err]
StatOf(w, fullpath) ==
    IF w.err = "nil"
    THEN [info |-> Info(w.node), err |-> Nil]
    ELSE [info |-> Info("R"), err |-> PathError(w.err, fullpath)]

\* faulty variant: the name is looked up with a plain stat under the root directory
NameToInfoPlainStat(fullpath) ==
    StatOf(PlainWalk(fullpath, "R", 0, FALSE), fullpath)

\* Root.NameToInfo: r.Root.Stat(fullpath)
NameToInfo(fullpath) ==
    IF fullpath = <<>>
    THEN [info |-> Info("R"), err |-> PathError("ENOENT", fullpath)]
    ELSE StatOf(doInRoot(fullpath, 1, "R", 0), fullpath)

-----------------------------------------------------------------------------
(* BasicStat *)

\* time.Time.UnixMicro
UnixMicro(t) == (t.year - 1970) * UnitsPerYear + t.frac

\* faulty variant: the count is split by a division that truncates toward
\* zero, which misplaces the times before 1970
ToTimeTruncating(u) ==
    IF u >= 0
    THEN [year |-> 1970 + (u \div UnitsPerYear), frac |-> u % UnitsPerYear]
    ELSE [year |-> 1970 - ((0 - u) \div UnitsPerYear),
          frac |-> 0 - ((0 - u) % UnitsPerYear)]

\* UnixtimeUs.ToTime: time.UnixMicro(u)
ToTime(u) == [year |-> 1970 + (u \div UnitsPerYear), frac |-> u % UnitsPerYear]

\* var empty BasicStat
EmptyBasicStat == [Path |-> <<>>, Size |-> 0, Modified |-> 0, FileType |-> 0]

\* FileInfo.ToBasicStat
ToBasicStat(i) ==
    [Path |-> <<>>,
     Size |-> i.size,
     Modified |-> UnixMicro(i.modTime),
     FileType |-> ToFileType(i.mode)]

\* faulty variant: the path is not set
WithFullPathDropped(b, f) == b

\* BasicStat.WithFullPath
WithFullPath(b, f) == [b EXCEPT !.Path = f]

\* Root.NameToBasicStat: gives [stat, err]
NameToBasicStat(fullpath) ==
    LET r == NameToInfo(fullpath)
    IN  IF r.err # Nil
        THEN [stat |-> EmptyBasicStat, err |-> r.err]
        ELSE [stat |-> WithFullPath(ToBasicStat(r.info), fullpath),
              err |-> Nil]

\* BasicStat.ToJsonObj, t2s being the labeler ToFileTypeToString makes of
\* the map m
ToJsonObj(b, m) ==
    [path |-> b.Path,
     size |-> b.Size,
     modified_time |-> ToTime(b.Modified),
     file_type |-> ToFileTypeToString(m, b.FileType)]

-----------------------------------------------------------------------------
(* The output: a bufio.Writer over a sink.  A writer is                    *)
(*   buf     the units buffered,                                           *)
(*   err     the writer's sticky error (b.err != nil),                     *)
(*   out     the units the sink accepted,                                  *)
(*   handed  the units passed to the sink's Write, accepted or not,        *)
(*   okLeft  the sink's writes that still succeed (-1: it never fails).    *)

NeverFails == -1

\* bufio.NewWriter(wtr)
NewWriter(okLeft) ==
    [buf |-> <<>>, err |-> FALSE, out |-> <<>>, handed |-> <<>>,
     okLeft |-> okLeft]

\* the encoded line of a JSON object: one unit per path segment
LineUnits(j) ==
    [k \in 1..Len(j.path) |-> [obj |-> j, k |-> k, last |-> k = Len(j.path)]]

\* wtr.Write(p): gives the writer, the count written and whether it failed
SinkWrite(w, p) ==
    LET failed == w.okLeft = 0
    IN  [w |-> [w EXCEPT !.handed = @ \o p,
                         !.out = IF failed THEN @ ELSE @ \o p,
                         !.okLeft = IF @ > 0 THEN @ - 1 ELSE @],
         n |-> IF failed THEN 0 ELSE Len(p),
         failed |-> failed]

\* bufio.Writer.Flush; its error is the err field of the writer it gives
Flush(w) ==
    IF w.err THEN w
    ELSE IF w.buf = <<>> THEN w
    ELSE LET r == SinkWrite(w, w.buf)
         IN  IF r.failed
             THEN [r.w EXCEPT !.buf = SubSeq(@, r.n + 1, Len(@)), !.err = TRUE]
             ELSE [r.w EXCEPT !.buf = <<>>]

\* bufio.Writer.Write; its error is the err field of the writer it gives
RECURSIVE BufWrite(_, _)
BufWrite(w, p) ==
    IF Len(p) > BufSize - Len(w.buf) /\ ~w.err
    THEN IF w.buf = <<>>
         THEN LET r == SinkWrite(w, p)
              IN  BufWrite([r.w EXCEPT !.err = r.failed],
                           SubSeq(p, r.n + 1, Len(p)))
         ELSE LET n == BufSize - Len(w.buf)
              IN  BufWrite(Flush([w EXCEPT !.buf = @ \o SubSeq(p, 1, n)]),
                           SubSeq(p, n + 1, Len(p)))
    ELSE IF w.err THEN w
    ELSE [w EXCEPT !.buf = @ \o p]

\* time.Time.MarshalJSON refuses a year outside [0,9999]
Marshals(j) == j.modified_time.year \in 0..9999

\* json.Encoder.Encode(j) on the writer: gives [w, err]
Encode(w, j) ==
    IF ~Marshals(j)
    THEN [w |-> w, err |-> [kind |-> "MarshalerError", name |-> j.path]]
    ELSE LET w2 == BufWrite(w, LineUnits(j))
         IN  [w |-> w2,
              err |-> IF w2.err THEN [kind |-> "WriteError", name |-> j.path]
                      ELSE Nil]

\* the complete lines in a sequence of units, as JSON objects
Lines(units) ==
    LET ends == SelectSeq(units, LAMBDA u : u.last)
    IN  [i \in 1..Len(ends) |-> ends[i].obj]

-----------------------------------------------------------------------------
(* The run *)

Event(op, name) == [op |-> op, name |-> name]

\* a []BasicStat: the nil slice, and the slice append makes of one
NilSlice == [isNil |-> TRUE, items |-> <<>>]

SliceAppend(sl, x) == [isNil |-> FALSE, items |-> Append(sl.items, x)]

\* all sequences over S of length at most n
SeqsUpTo(S, n) == UNION {[1..k -> S] : k \in 0..n}

InitClass ==
    /\ cmode = {}
    /\ ctype = FileTypeUnspecified
    /\ cstat = EmptyBasicStat
    /\ ccode = FileTypeUnspecified
    /\ clabel = ""

Init ==
    /\ pc = "main"
    /\ env = "unread"
    /\ root = "unopened"
    /\ closes = 0
    /\ consumer = "none"
    /\ names \in SeqsUpTo(NameSet, MaxNames)
    /\ idx = 0
    /\ cur = <<>>
    /\ res = [stat |-> EmptyBasicStat, err |-> Nil]
    /\ bw = NewWriter(NeverFails)
    /\ ret = Nil
    /\ logged = Nil
    /\ events = <<>>
    /\ yielded = <<>>
    /\ stopAt = 0
    /\ coll = NilSlice
    /\ scanErr = "nil"
    /\ input = names
    /\ InitClass

\* faulty variant: a missing variable reads as the empty string, without
\* an error (os.Getenv)
envValByKeyNoError(found) == Nil

\* main.go envValByKey: val, found := os.LookupEnv(key); the error returned
envValByKey(found) ==
    IF found THEN Nil ELSE [kind |-> "EnvMissing", name |-> <<>>]

\* util.Bind(io, f): f runs on the value of io, or io's error is passed on
\* and f does not run; gives where the run goes
Bind(e, next) == IF e = Nil THEN next ELSE "log"

\* main.go: rootDirname is read, then Bind runs the pipeline on it or passes
\* the error on to main
LookupEnv ==
    /\ pc = "main"
    /\ \E found \in BOOLEAN :
         LET e == envValByKey(found)
         IN  /\ env' = IF found THEN "set" ELSE "missing"
             /\ pc' = Bind(e, "open")
             /\ ret' = IF e = Nil THEN ret ELSE e
    /\ UNCHANGED <<root, closes, consumer, names, idx, cur, res, bw, logged,
                   events, yielded, stopAt>>
    /\ UNCHANGED classVars
    /\ UNCHANGED auxVars

\* RootDirname.NamesToBasicStatsToStdout: rt, e := d.ToRoot(); if nil != e
\* { return e }
\* faulty variant: the error of ToRoot is dropped and the run goes on
OpenRootErrorIgnored ==
    /\ pc = "open"
    /\ \E ok \in BOOLEAN :
         /\ root' = IF ok THEN "open" ELSE "failed"
         /\ events' = IF ok THEN Append(events, Event("open", <<>>))
                      ELSE events
    /\ pc' = "stream"
    /\ UNCHANGED <<env, closes, consumer, names, idx, cur, res, bw, ret,
                   logged, yielded, stopAt>>
    /\ UNCHANGED classVars
    /\ UNCHANGED auxVars

OpenRoot ==
    /\ pc = "open"
    /\ \E ok \in BOOLEAN :
         /\ root' = IF ok THEN "open" ELSE "failed"
         /\ pc' = IF ok THEN "stream" ELSE "log"
         /\ ret' = IF ok THEN ret
                   ELSE [kind |-> "OpenRootError", name |-> <<>>]
         /\ events' = IF ok THEN Append(events, Event("open", <<>>))
                      ELSE events
    /\ UNCHANGED <<env, closes, consumer, names, idx, cur, res, bw, logged,
                   yielded,
                   stopAt>>
    /\ UNCHANGED classVars
    /\ UNCHANGED auxVars

\* the stream is built (nothing runs) and its consumer starts: either
\* BasicStatsToWriter (bufio.NewWriter, defer Flush, json.NewEncoder), or
\* BasicStatIter.Collect (var ret []BasicStat), or a caller's own range loop
\* over NamesToBasicStats
NewStream ==
    /\ pc = "stream"
    /\ \/ /\ consumer' = "writer"
          /\ \E k \in {NeverFails} \cup 0..SinkBound : bw' = NewWriter(k)
       \/ /\ consumer' = "collect"
          /\ bw' = bw
       \/ /\ consumer' = "range"
          /\ bw' = bw
    /\ pc' = "scan"
    /\ UNCHANGED <<env, root, closes, names, idx, cur, res, ret, logged,
                   events, yielded,
                   stopAt>>
    /\ UNCHANGED classVars
    /\ UNCHANGED auxVars

\* where the run goes when the range loop is over
LoopExit(c) == IF c = "writer" THEN "flush" ELSE "close"

\* the ways bufio.Scanner.Scan comes to return false
ScanEnds == {"EOF", "readError", "ErrTooLong"}

\* what the scanner holds of a line when the read fails inside it: the
\* first segments of the name, or the name with its last segment cut short,
\* which names no entry
Fragments(name) ==
    {SubSeq(name, 1, k) : k \in 1..(Len(name) - 1)}
        \cup {Append(SubSeq(name, 1, Len(name) - 1), "cut")}

\* ReaderToNames: for s.Scan() { ... } ends when Scan returns false, whatever
\* the reason e; s.Err() is not read and the function just returns
ScanEndError(e) == Nil

\* ReaderToNames inside "for name := range names", one call of s.Scan():
\* the next line is scanned and yielded to NamesToBasicStats; or the read
\* fails inside the next line, and the scanner gives what it holds of the
\* line as its last token (bufio.ScanLines at the end of the data); or Scan
\* returns false (end of input, a failed read, a line too long) and the
\* consumer's loop ends (return nil)
Scan ==
    /\ pc = "scan"
    /\ \/ /\ scanErr = "nil" /\ idx < Len(names)
          /\ cur' = names[idx + 1]
          /\ idx' = idx + 1
          /\ pc' = "resolve"
          /\ UNCHANGED <<names, scanErr, ret>>
       \/ /\ scanErr = "nil" /\ idx < Len(names)
          /\ \E f \in Fragments(names[idx + 1]) :
                /\ names' = Append(SubSeq(names, 1, idx), f)
                /\ cur' = f
          /\ scanErr' = "readError"
          /\ idx' = idx + 1
          /\ pc' = "resolve"
          /\ ret' = ret
       \/ /\ \E e \in ScanEnds :
                /\ IF scanErr # "nil" THEN e = scanErr
                   ELSE CASE e = "EOF" -> idx = Len(names)
                          [] e = "ErrTooLong" -> idx < Len(names)
                          [] OTHER -> TRUE
                /\ scanErr' = e
                /\ ret' = ScanEndError(e)
          /\ names' = SubSeq(names, 1, idx)
          /\ pc' = LoopExit(consumer)
          /\ UNCHANGED <<cur, idx>>
    /\ UNCHANGED <<env, root, closes, consumer, res, bw, logged, events,
                   yielded, stopAt, coll, input>>
    /\ UNCHANGED classVars

\* NamesToBasicStats: s, e := i(name)
\* faulty variant: the name after the current one is resolved ahead of the
\* consumer
ResolveAhead ==
    /\ pc = "resolve"
    /\ res' = NameToBasicStat(cur)
    /\ events' = IF idx < Len(names)
                 THEN events \o <<Event("resolve", cur),
                                  Event("resolve", names[idx + 1])>>
                 ELSE Append(events, Event("resolve", cur))
    /\ pc' = "yield"
    /\ UNCHANGED <<env, root, closes, consumer, names, idx, cur, bw, ret,
                   logged, yielded, stopAt>>
    /\ UNCHANGED classVars
    /\ UNCHANGED auxVars

\* faulty variant: the record returned with an error is a variable shared
\* by the calls, which holds what the call before left in it
ResolveKeepsState ==
    /\ pc = "resolve"
    /\ LET r == NameToBasicStat(cur)
       IN  res' = IF r.err # Nil THEN [stat |-> res.stat, err |-> r.err] ELSE r
    /\ events' = Append(events, Event("resolve", cur))
    /\ pc' = "yield"
    /\ UNCHANGED <<env, root, closes, consumer, names, idx, cur, bw, ret,
                   logged, yielded, stopAt>>
    /\ UNCHANGED classVars
    /\ UNCHANGED auxVars

Resolve ==
    /\ pc = "resolve"
    /\ res' = NameToBasicStat(cur)
    /\ events' = Append(events, Event("resolve", cur))
    /\ pc' = "yield"
    /\ UNCHANGED <<env, root, closes, consumer, names, idx, cur, bw, ret,
                   logged, yielded,
                   stopAt>>
    /\ UNCHANGED classVars
    /\ UNCHANGED auxVars

\* faulty variant: a failed name is skipped instead of being yielded
NamesToBasicStatsYieldsSuccessOnly(ys, r) ==
    IF r.err # Nil THEN ys ELSE Append(ys, r)

\* NamesToBasicStats: yield(s, e) hands every result to the consumer
NamesToBasicStatsYields(ys, r) == Append(ys, r)

\* faulty variant: the iterator goes on to the next name whatever yield returned
NamesToBasicStatsIgnoresYield(cont, c) == "scan"

\* NamesToBasicStats: if !yield(s, e) { return }, which also ends
\* ReaderToNames and the consumer's loop
NamesToBasicStatsAfterYield(cont, c) == IF cont THEN "scan" ELSE LoopExit(c)

\* faulty variant: the body skips an error item and goes on with the next one
WriterBodySkipsError(w, r) ==
    IF r.err # Nil THEN [w |-> w, err |-> Nil, cont |-> TRUE, encoded |-> FALSE]
    ELSE LET e == Encode(w, ToJsonObj(r.stat, FileTypeToStringMapDefault))
         IN  [w |-> e.w, err |-> e.err, cont |-> e.err = Nil,
              encoded |-> e.err = Nil]

\* the body of the range loop of BasicStatsToWriter on item r: gives the
\* writer, the error returned (Nil when the loop goes on), whether the loop
\* goes on, and whether a line was encoded
WriterBody(w, r) ==
    IF r.err # Nil THEN [w |-> w, err |-> r.err, cont |-> FALSE, encoded |-> FALSE]
    ELSE LET e == Encode(w, ToJsonObj(r.stat, FileTypeToStringMapDefault))
         IN  [w |-> e.w, err |-> e.err, cont |-> e.err = Nil,
              encoded |-> e.err = Nil]

\* yield(s, e) with BasicStatsToWriter's loop body
YieldToWriter ==
    /\ pc = "yield"
    /\ consumer = "writer"
    /\ LET b == WriterBody(bw, res)
       IN  /\ bw' = b.w
           /\ ret' = IF b.cont THEN ret ELSE b.err
           /\ events' = IF b.encoded THEN Append(events, Event("encode", cur))
                        ELSE events
           /\ pc' = NamesToBasicStatsAfterYield(b.cont, consumer)
           /\ stopAt' = IF b.cont THEN stopAt ELSE idx
    /\ yielded' = NamesToBasicStatsYields(yielded, res)
    /\ UNCHANGED <<env, root, closes, consumer, names, idx, cur, res, logged>>
    /\ UNCHANGED classVars
    /\ UNCHANGED auxVars

\* faulty variant: the records collected so far are returned with the error
CollectBodyKeepsPartial(sl, r) ==
    IF r.err # Nil THEN [ret |-> sl, err |-> r.err, cont |-> FALSE]
    ELSE [ret |-> SliceAppend(sl, r.stat), err |-> Nil, cont |-> TRUE]

\* the body of the range loop of BasicStatIter.Collect on item r: gives the
\* slice ret (the slice returned when the loop stops), the error returned
\* and whether the loop goes on
CollectBody(sl, r) ==
    IF r.err # Nil THEN [ret |-> NilSlice, err |-> r.err, cont |-> FALSE]
    ELSE [ret |-> SliceAppend(sl, r.stat), err |-> Nil, cont |-> TRUE]

\* yield(s, e) with Collect's loop body
YieldToCollect ==
    /\ pc = "yield"
    /\ consumer = "collect"
    /\ LET b == CollectBody(coll, res)
       IN  /\ coll' = b.ret
           /\ ret' = IF b.cont THEN ret ELSE b.err
           /\ pc' = NamesToBasicStatsAfterYield(b.cont, consumer)
           /\ stopAt' = IF b.cont THEN stopAt ELSE idx
    /\ yielded' = NamesToBasicStatsYields(yielded, res)
    /\ UNCHANGED <<env, root, closes, consumer, names, idx, cur, res, bw,
                   logged, events, scanErr, input>>
    /\ UNCHANGED classVars

\* yield(s, e) with a caller's loop body, which goes on or breaks as it likes
YieldToRange ==
    /\ pc = "yield"
    /\ consumer = "range"
    /\ \E cont \in BOOLEAN :
         /\ pc' = NamesToBasicStatsAfterYield(cont, consumer)
         /\ stopAt' = IF cont THEN stopAt ELSE idx
    /\ yielded' = NamesToBasicStatsYields(yielded, res)
    /\ UNCHANGED <<env, root, closes, consumer, names, idx, cur, res, bw, ret,
                   logged, events>>
    /\ UNCHANGED classVars
    /\ UNCHANGED auxVars

\* faulty variant: the buffered writer is not flushed when the function returns
DeferredFlushMissing(w) == w

\* BasicStatsToWriter: defer bw.Flush(), whose error is dropped
DeferredFlush(w) == Flush(w)

FlushOnReturn ==
    /\ pc = "flush"
    /\ bw' = DeferredFlush(bw)
    /\ events' = Append(events, Event("flush", <<>>))
    /\ pc' = "close"
    /\ UNCHANGED <<env, root, closes, consumer, names, idx, cur, res, ret,
                   logged, yielded,
                   stopAt>>
    /\ UNCHANGED classVars
    /\ UNCHANGED auxVars

\* faulty variant: the root is closed after the pipeline only when it returned no
\* error (a close that is not deferred)
CloseRootOnlyOnSuccess ==
    /\ pc = "close"
    /\ root' = IF ret = Nil THEN "closed" ELSE root
    /\ closes' = IF ret = Nil THEN closes + 1 ELSE closes
    /\ events' = IF ret = Nil THEN Append(events, Event("close", <<>>))
                 ELSE events
    /\ pc' = "log"
    /\ UNCHANGED <<env, consumer, names, idx, cur, res, bw, ret, logged,
                   yielded, stopAt>>
    /\ UNCHANGED classVars
    /\ UNCHANGED auxVars

\* RootDirname.NamesToBasicStatsToStdout: defer rt.Close()
CloseRoot ==
    /\ pc = "close"
    /\ root' = "closed"
    /\ closes' = closes + 1
    /\ events' = Append(events, Event("close", <<>>))
    /\ pc' = "log"
    /\ UNCHANGED <<env, consumer, names, idx, cur, res, bw, ret, logged,
                   yielded,
                   stopAt>>
    /\ UNCHANGED classVars
    /\ UNCHANGED auxVars

\* main: if nil != e { log.Printf("%v\n", e) }
Log ==
    /\ pc = "log"
    /\ logged' = ret
    /\ pc' = "done"
    /\ UNCHANGED <<env, root, closes, consumer, names, idx, cur, res, bw, ret,
                   events, yielded,
                   stopAt>>
    /\ UNCHANGED classVars
    /\ UNCHANGED auxVars

Next ==
    \/ LookupEnv
    \/ OpenRoot
    \/ NewStream
    \/ Scan
    \/ Resolve
    \/ YieldToWriter
    \/ YieldToCollect
    \/ YieldToRange
    \/ FlushOnReturn
    \/ CloseRoot
    \/ Log

Spec == Init /\ [][Next]_vars

-----------------------------------------------------------------------------
(* The classifier and the labeler on their own: every mode bit pattern and *)
(* every code of a range around the table's codes is tried.                *)

Codes == (FileTypeUnspecified - CodeMargin)..(FileTypeSock + CodeMargin)

InitPure ==
    /\ \/ /\ pc = "classify"
          /\ cmode \in SUBSET ModeBits
          /\ ccode = FileTypeUnspecified
       \/ /\ pc = "label"
          /\ cmode = {}
          /\ ccode \in Codes
    /\ ctype = FileTypeUnspecified
    /\ cstat = EmptyBasicStat
    /\ clabel = ""
    /\ env = "unread"
    /\ root = "unopened"
    /\ closes = 0
    /\ consumer = "none"
    /\ names = <<>>
    /\ idx = 0
    /\ cur = <<>>
    /\ res = [stat |-> EmptyBasicStat, err |-> Nil]
    /\ bw = NewWriter(NeverFails)
    /\ ret = Nil
    /\ logged = Nil
    /\ events = <<>>
    /\ yielded = <<>>
    /\ stopAt = 0
    /\ coll = NilSlice
    /\ scanErr = "nil"
    /\ input = <<>>

\* FileMode{cmode}.ToFileType(), and FileInfo.ToBasicStat() of an entry with
\* that mode
Classify ==
    /\ pc = "classify"
    /\ ctype' = ToFileType(cmode)
    /\ cstat' = ToBasicStat([size |-> 42,
                             modTime |-> [year |-> 2024, frac |-> 1],
                             mode |-> cmode])
    /\ pc' = "classified"
    /\ UNCHANGED <<cmode, ccode, clabel>>
    /\ UNCHANGED <<env, root, closes, consumer, names, idx, cur, res, bw, ret,
                   logged, events, yielded,
                   stopAt>>
    /\ UNCHANGED auxVars

\* ToJsonObj's t2s(b.FileType) with FileTypeToStringDefault
LabelOfStat ==
    /\ pc = "classified"
    /\ ccode' = cstat.FileType
    /\ clabel' = FileTypeToStringDefault(cstat.FileType)
    /\ pc' = "statLabelled"
    /\ UNCHANGED <<cmode, ctype, cstat>>
    /\ UNCHANGED <<env, root, closes, consumer, names, idx, cur, res, bw, ret,
                   logged, events, yielded,
                   stopAt>>
    /\ UNCHANGED auxVars

\* FileTypeToStringDefault(ccode)
Label ==
    /\ pc = "label"
    /\ clabel' = FileTypeToStringDefault(ccode)
    /\ pc' = "labelled"
    /\ UNCHANGED <<cmode, ctype, cstat, ccode>>
    /\ UNCHANGED <<env, root, closes, consumer, names, idx, cur, res, bw, ret,
                   logged, events, yielded,
                   stopAt>>
    /\ UNCHANGED auxVars

NextPure == Classify \/ LabelOfStat \/ Label

SpecPure == InitPure /\ [][NextPure]_vars

-----------------------------------------------------------------------------
(* Properties *)

\* the run is over (main has logged)
Done == pc = "done"

\* BasicStatsToWriter was the consumer and has returned
WriterReturned == consumer = "writer" /\ pc \in {"close", "log", "done"}

\* the JSON object of a name that resolves
ObjOf(name) == ToJsonObj(NameToBasicStat(name).stat, FileTypeToStringMapDefault)

\* whether resolution of the i-th name fails
Fails(i) == NameToBasicStat(names[i]).err # Nil

\* the index of the first name whose resolution fails, 0 if none fails
FirstFail ==
    IF \E i \in 1..Len(names) : Fails(i)
    THEN CHOOSE i \in 1..Len(names) : Fails(i) /\ \A j \in 1..(i - 1) : ~Fails(j)
    ELSE 0

\* the lines expected for the first n names
LinesOfFirst(n) == [i \in 1..n |-> ObjOf(names[i])]

\* the names of the events of kind op, in order
NamesOf(op) ==
    LET evs == SelectSeq(events, LAMBDA e : e.op = op)
    IN  [i \in 1..Len(evs) |-> evs[i].name]

IsPrefix(s, t) == Len(s) <= Len(t) /\ SubSeq(t, 1, Len(s)) = s

\* C1 as stated: with a sink that never fails, if k is the first name whose
\* resolution fails, the output holds exactly the lines of the names before
\* k, in input order, and the error returned is the resolution error of k.
C1_FirstFailureDecidesOutput ==
    (Done /\ consumer = "writer" /\ bw.okLeft = NeverFails /\ FirstFail # 0)
        => /\ Lines(bw.out) = LinesOfFirst(FirstFail - 1)
           /\ ret = NameToBasicStat(names[FirstFail]).err

\* C1, amended: the same, provided every name before k has a modification
\* time that JSON can render (a year in 0..9999); a record that cannot be
\* rendered ends the run with the encoder's error before name k is reached.
C1_FirstFailureDecidesOutputWhenEncodable ==
    (/\ Done /\ consumer = "writer" /\ bw.okLeft = NeverFails /\ FirstFail # 0
     /\ \A i \in 1..(FirstFail - 1) : Marshals(ObjOf(names[i])))
        => /\ Lines(bw.out) = LinesOfFirst(FirstFail - 1)
           /\ bw.buf = <<>>
           /\ ret = NameToBasicStat(names[FirstFail]).err

\* C1 witness: [a, b, c] with b failing: one line, the error of b
C1_Witness ==
    /\ Done /\ consumer = "writer" /\ bw.okLeft = NeverFails
    /\ Len(names) = 3 /\ FirstFail = 2 /\ ~Fails(3)
    /\ Len(Lines(bw.out)) = 1
    /\ ret = NameToBasicStat(names[2]).err

\* C2: when a write to the sink failed during BasicStatsToWriter, in Encode
\* or in the final flush, the function returns a non-nil error.
C2_WriteFailureIsReturned ==
    (WriterReturned /\ bw.err) => ret # Nil

\* a name with a ".." segment
HasDotDot(name) == \E i \in 1..Len(name) : name[i] = ".."

\* a name one of whose segments is a symbolic link with its target outside
\* the root
HasLinkOutside(name) ==
    \E i \in 1..Len(name) :
        /\ name[i] \in Nodes /\ Kind(name[i]) = "symlink"
        /\ PlainWalk(Target(name[i]).parts, Parent(name[i]), 0, FALSE).left

\* the paths of the records emitted (buffered or handed to the sink)
EmittedPaths == {u.obj.path : u \in {bw.buf[i] : i \in 1..Len(bw.buf)}
                                     \cup {bw.handed[i] : i \in 1..Len(bw.handed)}}

\* C3 as stated: resolution fails for every name with a ".." segment and for
\* every name with a link target outside the root, no record is emitted for
\* such a name, and no success returns an entry outside the root.
C3_DotDotAlwaysFails ==
    /\ \A i \in 1..Len(yielded) :
         (HasDotDot(names[i]) \/ HasLinkOutside(names[i]))
            => yielded[i].err # Nil
    /\ \A p \in EmittedPaths : ~HasDotDot(p) /\ ~HasLinkOutside(p)

\* C3, amended: resolution fails for every name whose lookup leaves the
\* root, by ".." segments that climb above it or by a link whose target lies
\* outside, and no record is emitted for such a name; a name whose ".."
\* segments stay inside the root resolves like any other; every success
\* returns the metadata of the entry inside the root that the name denotes.
C3_NoEscapeFromRoot ==
    /\ \A i \in 1..Len(yielded) :
         LET w == PlainWalk(names[i], "R", 0, FALSE)
         IN  /\ w.left => yielded[i].err # Nil
             /\ yielded[i].err = Nil =>
                  /\ w.err = "nil" /\ ~w.left /\ w.node \in Inside
                  /\ yielded[i].stat =
                        WithFullPath(ToBasicStat(Info(w.node)), names[i])
    /\ \A p \in EmittedPaths : ~PlainWalk(p, "R", 0, FALSE).left

\* C3 witness: a name with ".." that resolved, one that left the root by
\* ".." and one that left it by a link, both refused
C3_Witness ==
    /\ Done /\ consumer = "range" /\ Len(yielded) = 3
    /\ HasDotDot(names[1]) /\ yielded[1].err = Nil
    /\ HasDotDot(names[2]) /\ yielded[2].err.kind = "PathEscapesRoot"
    /\ HasLinkOutside(names[3]) /\ yielded[3].err.kind = "PathEscapesRoot"

\* C4: after a successful open the root is closed exactly once on every
\* exit path, every Resolve happens after the open and before the close, and
\* a root that failed to open is never closed.
C4_RootClosedExactlyOnce ==
    /\ closes <= 1
    /\ closes = Len(NamesOf("close"))
    /\ (Done /\ Len(NamesOf("open")) = 1) => (closes = 1 /\ root = "closed")
    /\ (Done /\ Len(NamesOf("open")) = 0) => (closes = 0 /\ root # "closed")
    /\ Len(NamesOf("open")) <= 1
    /\ \A i \in 1..Len(events) :
         events[i].op = "resolve" =>
            /\ \E j \in 1..(i - 1) : events[j].op = "open"
            /\ \A j \in 1..(i - 1) : events[j].op # "close"
    /\ pc = "resolve" => root = "open"

\* C4 witness: a run that resolved a name, ended on an error and closed the
\* root
C4_Witness ==
    /\ Done /\ ret # Nil /\ closes = 1 /\ root = "closed"
    /\ Len(NamesOf("resolve")) >= 2

\* the JSON objects of the lines encoded so far
EncodedObjs ==
    LET ns == NamesOf("encode") IN [i \in 1..Len(ns) |-> ObjOf(ns[i])]

\* C5: when BasicStatsToWriter has returned, by exhaustion or by error,
\* every line encoded before the return has been handed to the sink, in
\* order, and a sink that took every write holds exactly those lines with
\* nothing left in the buffer.
C5_FlushedOnReturn ==
    WriterReturned =>
        /\ IsPrefix(EncodedObjs, Lines(bw.handed))
        /\ ~bw.err => (bw.buf = <<>> /\ Lines(bw.out) = EncodedObjs)

\* C5 witness: the function returned a resolution error after encoding a
\* line, and the line is in the output
C5_Witness ==
    /\ WriterReturned /\ ret # Nil /\ ret.kind = "PathEscapesRoot"
    /\ Len(EncodedObjs) >= 1 /\ Lines(bw.out) = EncodedObjs

\* C6: once the consumer has stopped (its loop body returned at item
\* stopAt), no further name is pulled and no further name is resolved.
C6_NoPullAfterStop ==
    stopAt # 0 =>
        /\ idx = stopAt
        /\ NamesOf("resolve") = SubSeq(names, 1, stopAt)
        /\ Len(yielded) = stopAt

\* C6 witness: the consumer stopped with names left, which stay unresolved
\* to the end of the run
C6_Witness ==
    /\ Done /\ stopAt # 0 /\ stopAt < Len(names)
    /\ Len(NamesOf("resolve")) = stopAt

\* the consumer's loop has ended because the input was exhausted
Exhausted == consumer # "none" /\ stopAt = 0 /\ pc \in {"flush", "close", "log", "done"}

\* C7: the results yielded are, in input order, the outcomes of Resolve on
\* the names, one per name, failures included; when the stream is consumed
\* to the end there is one for every name.
C7_OneResultPerName ==
    /\ Len(yielded) <= Len(names)
    /\ yielded = [i \in 1..Len(yielded) |-> NameToBasicStat(names[i])]
    /\ pc \in {"scan", "flush", "close", "log", "done"} => Len(yielded) = idx
    /\ Exhausted => Len(yielded) = Len(names)

\* C7 witness: a stream of three names consumed to the end, the second of
\* them a failure
C7_Witness ==
    /\ Done /\ Exhausted /\ Len(names) = 3 /\ Len(yielded) = 3
    /\ yielded[1].err = Nil /\ yielded[2].err # Nil /\ yielded[3].err = Nil

\* the classifier has run on cmode
Classified == pc \in {"classified", "statLabelled"}

\* the code at the first TRUE of a sequence of tests, 0 when none is TRUE
FirstMatch(tests, codes) ==
    IF \E i \in 1..Len(tests) : tests[i]
    THEN codes[CHOOSE i \in 1..Len(tests) :
                   tests[i] /\ \A j \in 1..(i - 1) : ~tests[j]]
    ELSE 0

\* the categories in the order of precedence: regular file, directory,
\* symbolic link, named pipe, socket, character device, block device
CategoryCodes == <<100, 105, 102, 106, 109, 103, 104>>

\* C8 as stated: the first matching category wins, where character device
\* means device bit set and character bit set.
C8_PrecedenceWithDeviceBit ==
    Classified =>
        ctype = FirstMatch(
            <<cmode \cap ModeType = {},
              "ModeDir" \in cmode,
              "ModeSymlink" \in cmode,
              "ModeNamedPipe" \in cmode,
              "ModeSocket" \in cmode,
              "ModeDevice" \in cmode /\ "ModeCharDevice" \in cmode,
              "ModeDevice" \in cmode /\ "ModeCharDevice" \notin cmode>>,
            CategoryCodes)

\* C8, amended: the first matching category wins, where character device
\* means the character bit is set, whether or not the device bit is set.
C8_Precedence ==
    Classified =>
        ctype = FirstMatch(
            <<cmode \cap ModeType = {},
              "ModeDir" \in cmode,
              "ModeSymlink" \in cmode,
              "ModeNamedPipe" \in cmode,
              "ModeSocket" \in cmode,
              "ModeCharDevice" \in cmode,
              "ModeDevice" \in cmode /\ "ModeCharDevice" \notin cmode>>,
            CategoryCodes)

\* C8 witness: the character bit without the device bit is classified
\* character device
C8_Witness ==
    /\ Classified
    /\ "ModeCharDevice" \in cmode /\ "ModeDevice" \notin cmode
    /\ cmode \cap {"ModeDir", "ModeSymlink", "ModeNamedPipe", "ModeSocket"} = {}
    /\ ctype = 103

EightCodes == {0, 100, 102, 103, 104, 105, 106, 109}

\* a mode that is in none of the seven categories
Uncategorized(m) == m \cap ModeType = {"ModeIrregular"}

\* C9: every mode bit pattern is classified as one of the eight codes, a
\* pattern in no category as unspecified, whose label is "UNKNOWN FILE
\* TYPE"; the BasicStat of ToBasicStat carries that code.
C9_ClassificationTotal ==
    Classified =>
        /\ ctype \in EightCodes
        /\ cstat.FileType = ctype
        /\ Uncategorized(cmode) => ctype = 0
        /\ (pc = "statLabelled" /\ Uncategorized(cmode))
              => clabel = "UNKNOWN FILE TYPE"

\* C9 witness: a pattern in no category, classified unspecified and labelled
C9_Witness ==
    /\ pc = "statLabelled" /\ Uncategorized(cmode)
    /\ ctype = 0 /\ cstat.FileType = 0 /\ clabel = "UNKNOWN FILE TYPE"

\* C10: each of the eight codes has its fixed label and every other code
\* has the label "UNKNOWN FILE TYPE".
C10_LabelTotal ==
    pc = "labelled" =>
        clabel = CASE ccode = 0 -> "UNKNOWN FILE TYPE"
                   [] ccode = 100 -> "regular file"
                   [] ccode = 105 -> "directory"
                   [] ccode = 102 -> "symbolic link"
                   [] ccode = 106 -> "FIFO"
                   [] ccode = 109 -> "socket"
                   [] ccode = 103 -> "character special"
                   [] ccode = 104 -> "block special"
                   [] OTHER -> "UNKNOWN FILE TYPE"

\* C10 witness: a code outside the table gets the fallback label
C10_Witness ==
    pc = "labelled" /\ ccode \notin EightCodes /\ clabel = "UNKNOWN FILE TYPE"

\* the BasicStat a failed resolution returns: every field zero, Path empty
ZeroStat == [Path |-> <<>>, Size |-> 0, Modified |-> 0, FileType |-> 0]

\* C11: every successful resolution yields a record whose Path is the input
\* name verbatim and whose Size, Modified and FileType are those of the
\* raw-metadata conversion, which itself carries no path; every failed
\* resolution yields the empty record.
C11_PathOnlyOnSuccess ==
    \A i \in 1..Len(yielded) :
        LET r == yielded[i]
            raw == ToBasicStat(NameToInfo(names[i]).info)
        IN  /\ raw.Path = <<>>
            /\ IF r.err = Nil
               THEN /\ r.stat.Path = names[i]
                    /\ r.stat.Size = raw.Size
                    /\ r.stat.Modified = raw.Modified
                    /\ r.stat.FileType = raw.FileType
               ELSE r.stat = ZeroStat

\* C11 witness: a name with a ".." inside resolved with its path kept as
\* written and the size of the file it names, and a failed name gave the
\* empty record
C11_Witness ==
    /\ Done
    /\ \E i \in 1..Len(yielded) :
          /\ names[i] = <<"d", "..", "a">> /\ yielded[i].err = Nil
          /\ yielded[i].stat.Path = <<"d", "..", "a">>
          /\ yielded[i].stat.Size = 42
    /\ \E j \in 1..Len(yielded) :
          yielded[j].err # Nil /\ yielded[j].stat.Path = <<>>

\* C12: when opening the root directory fails, the run returns that open
\* error as its one error: no name is pulled from the input, no name is
\* resolved, no consumer starts, nothing is written, and main logs the
\* open error.
C12_OpenFailureEndsRun ==
    root = "failed" =>
        /\ pc \in {"log", "done"}
        /\ ret # Nil /\ ret.kind = "OpenRootError"
        /\ idx = 0 /\ yielded = <<>> /\ events = <<>>
        /\ consumer = "none"
        /\ bw.handed = <<>> /\ bw.buf = <<>> /\ bw.out = <<>>
        /\ Done => logged = ret

\* C12 witness: a run with three names waiting whose root did not open is
\* over, with the open error logged
C12_Witness ==
    /\ Done /\ root = "failed" /\ Len(names) = 3
    /\ logged # Nil /\ logged.kind = "OpenRootError"

EmittedUnits ==
    {bw.handed[i] : i \in 1..Len(bw.handed)} \cup {bw.buf[i] : i \in 1..Len(bw.buf)}

\* C14: every object written is the field-by-field image of a record the
\* stream yielded: path is Path, size is Size, file_type is the label of
\* FileType, modified_time is the calendar time whose microsecond count is
\* Modified, and the object has these four fields and no other.
C14_FieldByField ==
    \A u \in EmittedUnits :
        \E i \in 1..Len(yielded) :
            LET b == yielded[i].stat
                j == u.obj
            IN  /\ yielded[i].err = Nil
                /\ DOMAIN j = {"path", "size", "modified_time", "file_type"}
                /\ j.path = b.Path
                /\ j.size = b.Size
                /\ j.file_type = FileTypeToStringDefault(b.FileType)
                /\ j.modified_time.frac \in 0..(UnitsPerYear - 1)
                /\ UnixMicro(j.modified_time) = b.Modified

\* C14 witness: the output holds the line of a file of size 42, the line of
\* a directory labelled "directory", and the line of a file modified before
\* 1970 with that time
C14_Witness ==
    /\ Done
    /\ \E x, y, z \in {u.obj : u \in {bw.out[i] : i \in 1..Len(bw.out)}} :
          /\ x.size = 42 /\ x.file_type = "regular file" /\ x.path = <<"a">>
          /\ y.file_type = "directory" /\ y.path = <<"d">>
          /\ z.modified_time = [year |-> 1969, frac |-> 1]

\* C15: when the root-path variable is absent from the environment, the run
\* ends with a configuration error before the pipeline starts: the root is
\* never opened, no name is read or resolved, no consumer starts, nothing is
\* written, and main logs the error.
C15_MissingEnvEndsRun ==
    env = "missing" =>
        /\ pc \in {"log", "done"}
        /\ ret # Nil /\ ret.kind = "EnvMissing"
        /\ root = "unopened" /\ closes = 0
        /\ idx = 0 /\ yielded = <<>> /\ events = <<>>
        /\ consumer = "none"
        /\ bw.handed = <<>> /\ bw.buf = <<>> /\ bw.out = <<>>
        /\ Done => logged = ret

\* C15 witness: a run with three names waiting and no root-path variable is
\* over, with the configuration error logged and the root never opened
C15_Witness ==
    /\ Done /\ env = "missing" /\ Len(names) = 3
    /\ logged # Nil /\ logged.kind = "EnvMissing" /\ root = "unopened"

\* the resolve and encode steps of the run, in the order they happened
ResolveEncode == SelectSeq(events, LAMBDA e : e.op \in {"resolve", "encode"})

\* C16: nothing is pulled or resolved before the consumer starts pulling,
\* building the stream included; with the encoder as consumer, the resolve
\* and encode steps alternate, the k-th pair being on the k-th name, and a
\* name is pulled only when every name before it has been encoded.
C16_LazyOneInFlight ==
    /\ pc \in {"main", "open", "stream"} =>
           idx = 0 /\ yielded = <<>> /\ ResolveEncode = <<>>
    /\ Len(NamesOf("resolve")) <= idx
    /\ consumer = "writer" =>
        /\ \A k \in 1..Len(ResolveEncode) :
              /\ ResolveEncode[k].op = IF k % 2 = 1 THEN "resolve" ELSE "encode"
              /\ ResolveEncode[k].name = names[(k + 1) \div 2]
        /\ idx <= Len(NamesOf("encode")) + 1

\* C16 witness: three names went through the encoder one after the other,
\* and the run is over
C16_Witness ==
    /\ Done /\ consumer = "writer" /\ Len(names) = 3
    /\ Len(ResolveEncode) = 6
    /\ ResolveEncode[5] = Event("resolve", names[3])
    /\ ResolveEncode[6] = Event("encode", names[3])

\* BasicStatIter.Collect was the consumer and has returned
CollectReturned == consumer = "collect" /\ pc \in {"close", "log", "done"}

\* C17: when Collect has returned: if every item of the sequence was a
\* success it went through the whole sequence and returned the records in
\* order with a nil error; otherwise it returned the nil slice with the
\* first error, which is the error of the first failing name, it dropped
\* the records collected before, and it pulled nothing after that item.
C17_CollectAllOrNothing ==
    CollectReturned =>
        IF \A i \in 1..Len(yielded) : yielded[i].err = Nil
        THEN /\ Len(yielded) = Len(names)
             /\ coll.items = [i \in 1..Len(names) |-> yielded[i].stat]
             /\ coll.isNil = (names = <<>>)
             /\ ret = Nil
        ELSE LET k == Len(yielded)
             IN  /\ yielded[k].err # Nil
                 /\ k = FirstFail
                 /\ idx = k
                 /\ Len(NamesOf("resolve")) = k
                 /\ coll = NilSlice
                 /\ ret = yielded[k].err

\* C17 witness: of three names the first resolved and the second failed;
\* Collect returned the nil slice and that error, and the third name was
\* never pulled
C17_Witness ==
    /\ Done /\ CollectReturned /\ Len(names) = 3
    /\ Len(yielded) = 2 /\ yielded[1].err = Nil /\ yielded[2].err # Nil
    /\ coll = NilSlice /\ logged = yielded[2].err /\ idx = 2

\* the scanner met a failed read or an over-long line, and the consumer's
\* loop ended because the scanner gave no more names
ScanFailed == scanErr \in {"readError", "ErrTooLong"} /\ Exhausted

\* the paths of the lines the sink holds, in order
OutPaths ==
    LET ls == Lines(bw.out) IN [i \in 1..Len(ls) |-> ls[i].path]

\* C18: the names yielded are the lines of the reader, one per name, in
\* input order; nothing is read once the consumer has stopped; and when a
\* read fails or a line is too long, the name sequence just ends: every
\* name read before was resolved, the run returns and logs a nil error, and
\* a sink that took every write holds one line per name read, each of them
\* a line of the reader.
C18_ReadFailureEndsAsEndOfInput ==
    /\ IsPrefix(SubSeq(names, 1, idx), input)
    /\ stopAt # 0 => idx = stopAt
    /\ ScanFailed =>
        /\ Len(yielded) = idx
        /\ pc \in {"close", "log", "done"} => ret = Nil
        /\ Done => logged = Nil
        /\ (WriterReturned /\ ~bw.err) =>
               /\ OutPaths = SubSeq(names, 1, idx)
               /\ IsPrefix(OutPaths, input)

====
